---- MODULE Spec2Model ----
(***************************************************************************)
(* A model of PyRectPacking: the rectangle geometry (rect.py), the generic *)
(* bin (bin.py), the maximal-space bin (maxspace.py) and the multi-bin     *)
(* solution (solution.py).                                                 *)
(*                                                                         *)
(* Python lists are sequences; a Python index i is the TLA+ index i+1.     *)
(* Rect objects are records.  float('inf') is the number Inf, larger than  *)
(* every score the bounded model can produce.  None is the record None,    *)
(* a raised exception is the record Raise(name).                           *)
(***************************************************************************)
EXTENDS Integers, Sequences, FiniteSets, TLC

(* ----------------------------- bounds ---------------------------------- *)

\* most items a stand-alone bin receives (successful inserts) in SpecBin
MaxPacked == 3
\* longest item list handed to RBPSolution.pack
MaxLen == 3
\* most direct calls of RBPSolution.pack on one solution
MaxPacks == 2

(* --------------------------- program values ---------------------------- *)

\* float('inf'), the initial value of score1 and score2
Inf == 1000000

None == [none |-> TRUE]

\* None where the program expects a list (of Rects)
NoList == << None >>

Raise(name) == [raise |-> name]

IsRaise(v) == "raise" \in DOMAIN v

\* PackingHeuristic, bin.py
BestAreaFit == "BestAreaFit"

TouchingPerimeter == "TouchingPerimeter"

TopRightCornerDistance == "TopRightCornerDistance"

PackingHeuristic == {BestAreaFit, TouchingPerimeter, TopRightCornerDistance}

\* the None that Bin.packHeur holds until the first evaluatePacking
NoHeur == "None"

Min(a, b) == IF a <= b THEN a ELSE b

Max(a, b) == IF a >= b THEN a ELSE b

(* ------------------------------ rect.py -------------------------------- *)

\* Rect.__init__: an unplaced item (x = y = -1) with both scores at infinity
Rect(width, height) ==
  [width |-> width, height |-> height, x |-> -1, y |-> -1,
   score1 |-> Inf, score2 |-> Inf]

\* Rect.rotate
rotate(r) == [r EXCEPT !.width = r.height, !.height = r.width]

\* Rect.isReadyForPacking
isReadyForPacking(r) == r.x # -1 /\ r.y # -1

\* Rect.removePackingInfo
removePackingInfo(r) ==
  [r EXCEPT !.x = -1, !.y = -1, !.score1 = Inf, !.score2 = Inf]

\* Rect.isContainedIn: self lies in rect, equality included
isContainedIn(self, rect) ==
  /\ self.x >= rect.x
  /\ self.y >= rect.y
  /\ self.x + self.width <= rect.x + rect.width
  /\ self.y + self.height <= rect.y + rect.height

\* Rect.computeCommonLength and Bin.computeCommonLength (same body)
computeCommonLength(start1, end1, start2, end2) ==
  IF start2 >= end1 \/ end2 <= start1 THEN 0
  ELSE Min(end1, end2) - Max(start1, start2)

\* Rect.isOverlapping: the if / elif / else cascade of rect.py
RectIsOverlapping(self, rect) ==
  IF ~(self.x >= rect.x + rect.width \/ self.x + self.width <= rect.x)
  THEN computeCommonLength(self.y, self.y + self.height,
                           rect.y, rect.y + rect.height) > 0
  ELSE IF ~(self.y >= rect.y + rect.height \/ self.y + self.height <= rect.y)
       THEN computeCommonLength(self.x, self.x + self.width,
                                rect.x, rect.x + rect.width) > 0
       ELSE FALSE

\* Rect.__lt__: ordering by area, used by list.sort
RectLt(a, b) == a.width * a.height < b.width * b.height

(* ------------------------------- bin.py -------------------------------- *)

\* Bin.isOverlapping(rect1, rect2)
isOverlapping(rect1, rect2) ==
  LET horizSkip == rect1.x >= rect2.x + rect2.width
                   \/ rect1.x + rect1.width <= rect2.x
      vertSkip == rect1.y >= rect2.y + rect2.height
                  \/ rect1.y + rect1.height <= rect2.y
  IN ~(horizSkip \/ vertSkip)

\* MaxSpaceBin.setupFreeRects: one free space spanning the bin
setupFreeRects(b) ==
  [b EXCEPT !.freeRects =
     << [Rect(b.binWidth, b.binHeight) EXCEPT !.x = 0, !.y = 0] >>]

\* Bin.__init__ followed by Bin.init / Bin.setup
MaxSpaceBin(binWidth, binHeight) ==
  LET b0 == [binWidth |-> binWidth, binHeight |-> binHeight,
             occupiedArea |-> 0, touchingPerimeter |-> 0,
             packedRects |-> << >>, freeRects |-> << >>,
             canRotate |-> FALSE, packHeur |-> NoHeur]
      b1 == setupFreeRects([b0 EXCEPT !.packedRects = << >>])
  IN [b1 EXCEPT !.occupiedArea = 0, !.touchingPerimeter = 0]

\* packRect adding the square of the width instead of the area
packRectSquared(b, rect) ==
  [b EXCEPT !.packedRects = Append(b.packedRects, rect),
            !.occupiedArea = b.occupiedArea + rect.width * rect.width]

\* Bin.packRect
packRect(b, rect) ==
  [b EXCEPT !.packedRects = Append(b.packedRects, rect),
            !.occupiedArea = b.occupiedArea + rect.width * rect.height]

\* Bin.isFeasible
isFeasible(b) ==
  \A i \in 1..Len(b.packedRects) :
    LET rect1 == b.packedRects[i] IN
    /\ ~(rect1.x < 0 \/ rect1.x > b.binWidth)
    /\ ~(rect1.y < 0 \/ rect1.y > b.binHeight)
    /\ ~(rect1.x + rect1.width > b.binWidth
         \/ rect1.y + rect1.height > b.binHeight)
    /\ \A j \in (i+1)..Len(b.packedRects) :
         ~RectIsOverlapping(rect1, b.packedRects[j])

\* the loop of Bin.computeTouchingPerimeter over packedRects[k..]
RECURSIVE TouchingLoop(_, _, _, _, _, _, _)
TouchingLoop(b, k, x, y, width, height, perimeter) ==
  IF k > Len(b.packedRects) THEN perimeter
  ELSE LET rect == b.packedRects[k]
           p1 == IF rect.x + rect.width = x \/ x + width = rect.x
                 THEN perimeter + computeCommonLength(y, y + height,
                                     rect.y, rect.y + rect.height)
                 ELSE perimeter
           p2 == IF rect.y = y + height \/ rect.y + rect.height = y
                 THEN p1 + computeCommonLength(x, x + width,
                                     rect.x, rect.x + rect.width)
                 ELSE p1
       IN TouchingLoop(b, k + 1, x, y, width, height, p2)

\* Bin.computeTouchingPerimeter
computeTouchingPerimeter(b, x, y, width, height) ==
  LET p1 == IF x = 0 \/ x + width = b.binWidth THEN height ELSE 0
      p2 == IF y = 0 \/ y + height = b.binHeight THEN p1 + width ELSE p1
  IN TouchingLoop(b, 1, x, y, width, height, p2)

\* Bin.computeDistance returns sqrt(d); the model keeps d itself.  sqrt is
\* strictly increasing on the integers that occur, and the code only
\* compares distances with > , < and ==, so every comparison is preserved.
computeDistance(x1, y1, x2, y2) == (x1 - x2) * (x1 - x2) + (y1 - y2) * (y1 - y2)

\* Bin.getOccupancy() < 1.0, as a comparison of integers
OccupancyBelowOne(b) == b.occupiedArea < b.binWidth * b.binHeight

(* ----------------------------- maxspace.py ----------------------------- *)

\* The three insert* methods scan freeRects with the same local variables:
\* best1 and best2 are the best values so far (bestWastedArea and
\* bestShortSide, largestTouchingPerimeter, largestDist), raised tells that
\* an exception left the loop.
ScanStart(best1, best2) ==
  [best1 |-> best1, best2 |-> best2, bestMaxSpaceIndex |-> -1,
   isRotated |-> FALSE, raised |-> FALSE]

\* the assignments made when an orientation beats the best so far
Take(acc, i, isRotated, v1, v2) ==
  [acc EXCEPT !.best1 = v1, !.best2 = v2, !.bestMaxSpaceIndex = i,
              !.isRotated = isRotated]

\* the tail shared by the three insert* methods: None, or a new Rect in the
\* chosen orientation at the origin of the chosen free space
Candidate(b, rect, acc, score1, score2) ==
  IF acc.raised THEN Raise("NameError")
  ELSE IF acc.bestMaxSpaceIndex = -1 THEN None
  ELSE LET r0 == Rect(rect.width, rect.height)
           r1 == IF acc.isRotated THEN rotate(r0) ELSE r0
           maxSpace == b.freeRects[acc.bestMaxSpaceIndex + 1]
       IN [r1 EXCEPT !.x = maxSpace.x, !.y = maxSpace.y,
                     !.score1 = score1, !.score2 = score2]

\* one orientation of insertBestArea with a pair of equal scores replacing
\* the best so far
BestAreaTryLast(b, maxSpace, i, acc, width, height, isRotated) ==
  IF /\ isRotated => b.canRotate
     /\ maxSpace.width >= width /\ maxSpace.height >= height
     /\ \/ maxSpace.width * maxSpace.height - width * height < acc.best1
        \/ /\ maxSpace.width * maxSpace.height - width * height = acc.best1
           /\ Min(maxSpace.width - width, maxSpace.height - height) <= acc.best2
  THEN Take(acc, i, isRotated,
            maxSpace.width * maxSpace.height - width * height,
            Min(maxSpace.width - width, maxSpace.height - height))
  ELSE acc

\* insertBestArea, lines 221-229 (width, height as given) and 230-238
\* (width and height exchanged, under canRotate): one orientation tried
\* against free space i
BestAreaTry(b, maxSpace, i, acc, width, height, isRotated) ==
  LET wastedArea == maxSpace.width * maxSpace.height - width * height
      shortSide == Min(maxSpace.width - width, maxSpace.height - height)
  IN IF /\ isRotated => b.canRotate
        /\ maxSpace.width >= width /\ maxSpace.height >= height
        /\ \/ wastedArea < acc.best1
           \/ (wastedArea = acc.best1 /\ shortSide < acc.best2)
     THEN Take(acc, i, isRotated, wastedArea, shortSide)
     ELSE acc

\* one pass of the loop of insertBestArea over free space i (Python index)
BestAreaStep(b, rect, i, acc) ==
  BestAreaTry(b, b.freeRects[i + 1], i,
              BestAreaTry(b, b.freeRects[i + 1], i, acc,
                          rect.width, rect.height, FALSE),
              rect.height, rect.width, TRUE)

RECURSIVE BestAreaScan(_, _, _, _)
BestAreaScan(b, rect, i, acc) ==
  IF i >= Len(b.freeRects) THEN acc
  ELSE BestAreaScan(b, rect, i + 1, BestAreaStep(b, rect, i, acc))

\* lines 240-249 of insertBestArea
BestAreaResult(b, rect, acc) == Candidate(b, rect, acc, acc.best1, acc.best2)

\* MaxSpaceBin.insertBestArea
insertBestArea(b, rect) ==
  BestAreaResult(b, rect, BestAreaScan(b, rect, 0, ScanStart(Inf, Inf)))

\* a larger value beats the best so far (TouchingPerimeter and
\* TopRightCornerDistance); best2 is not used
LargerTry(acc, i, fits, value, isRotated) ==
  IF fits /\ value > acc.best1 THEN Take(acc, i, isRotated, value, acc.best2)
  ELSE acc

\* insertTouchingPerimeter, lines 176-181 and 182-187: one orientation
TouchingPerimeterTry(b, maxSpace, i, acc, width, height, isRotated) ==
  LargerTry(acc, i,
            /\ isRotated => b.canRotate
            /\ width <= maxSpace.width /\ height <= maxSpace.height,
            computeTouchingPerimeter(b, maxSpace.x, maxSpace.y, width, height),
            isRotated)

\* one pass of the loop of insertTouchingPerimeter
TouchingPerimeterStep(b, rect, i, acc) ==
  TouchingPerimeterTry(b, b.freeRects[i + 1], i,
                       TouchingPerimeterTry(b, b.freeRects[i + 1], i, acc,
                                            rect.width, rect.height, FALSE),
                       rect.height, rect.width, TRUE)

RECURSIVE TouchingPerimeterScan(_, _, _, _)
TouchingPerimeterScan(b, rect, i, acc) ==
  IF i >= Len(b.freeRects) THEN acc
  ELSE TouchingPerimeterScan(b, rect, i + 1,
                             TouchingPerimeterStep(b, rect, i, acc))

\* the tail of insertTouchingPerimeter and insertTopRightCornerDistance:
\* score1 is the negated best value, score2 stays at infinity
NegatedResult(b, rect, acc) == Candidate(b, rect, acc, -acc.best1, Inf)

\* MaxSpaceBin.insertTouchingPerimeter
insertTouchingPerimeter(b, rect) ==
  NegatedResult(b, rect, TouchingPerimeterScan(b, rect, 0, ScanStart(-1, Inf)))

\* insertTopRightCornerDistance, lines 137-142.  Line 138 names binWidth and
\* binHeight without self: neither the function nor the module defines
\* them, so once the condition of line 137 holds, evaluating the call
\* raises NameError and the loop is left.
TopRightRotatedTry(b, maxSpace, acc, rect) ==
  IF b.canRotate /\ rect.height <= maxSpace.width
       /\ rect.width <= maxSpace.height
  THEN [acc EXCEPT !.raised = TRUE]
  ELSE acc

\* one pass of the loop of insertTopRightCornerDistance: lines 129-135,
\* then lines 137-142
TopRightCornerDistanceStep(b, rect, i, acc) ==
  TopRightRotatedTry(b, b.freeRects[i + 1],
    LargerTry(acc, i,
              /\ rect.width <= b.freeRects[i + 1].width
              /\ rect.height <= b.freeRects[i + 1].height,
              computeDistance(b.freeRects[i + 1].x + rect.width,
                              b.freeRects[i + 1].y + rect.height,
                              b.binWidth, b.binHeight),
              FALSE),
    rect)

RECURSIVE TopRightCornerDistanceScan(_, _, _, _)
TopRightCornerDistanceScan(b, rect, i, acc) ==
  IF i >= Len(b.freeRects) \/ acc.raised THEN acc
  ELSE TopRightCornerDistanceScan(b, rect, i + 1,
                                  TopRightCornerDistanceStep(b, rect, i, acc))

\* MaxSpaceBin.insertTopRightCornerDistance
insertTopRightCornerDistance(b, rect) ==
  NegatedResult(b, rect,
                TopRightCornerDistanceScan(b, rect, 0, ScanStart(-1, Inf)))

\* evaluatePacking overwriting packHeur on every call
RememberHeurAlways(b, heur) == [b EXCEPT !.packHeur = heur]

\* line 55 of evaluatePacking: the first heuristic seen is remembered
RememberHeur(b, heur) ==
  IF b.packHeur = NoHeur THEN [b EXCEPT !.packHeur = heur] ELSE b

\* lines 56-66 of evaluatePacking: the dispatch on the heuristic
Dispatch(b, rect, heur) ==
  CASE heur = BestAreaFit -> insertBestArea(b, rect)
    [] heur = TouchingPerimeter -> insertTouchingPerimeter(b, rect)
    [] heur = TopRightCornerDistance -> insertTopRightCornerDistance(b, rect)
    [] OTHER -> Raise("ValueError")

\* MaxSpaceBin.evaluatePacking: the bin afterwards and the value returned
\* (a candidate Rect, None, or a raised exception)
evaluatePacking(b, rect, heur) ==
  [bin |-> RememberHeur(b, heur), ret |-> Dispatch(b, rect, heur)]

\* residual spaces cut as by a guillotine: the space above the item over
\* the whole width, and the space right of it no higher than the item
NewFreeRectsGuillotine(freeRect, rect) ==
  (IF rect.y + rect.height < freeRect.y + freeRect.height
   THEN << [freeRect EXCEPT
              !.y = rect.y + rect.height,
              !.height = freeRect.y + freeRect.height
                         - (rect.y + rect.height)] >>
   ELSE << >>)
  \o (IF rect.x + rect.width < freeRect.x + freeRect.width
      THEN << [freeRect EXCEPT
                 !.x = rect.x + rect.width,
                 !.width = freeRect.x + freeRect.width
                           - (rect.x + rect.width),
                 !.height = Min(freeRect.height,
                                rect.y + rect.height - freeRect.y)] >>
      ELSE << >>)

\* the residual spaces generateNewMaxSpaces appends for one overlapping
\* free space, in the order bottom, top, left, right
NewFreeRects(freeRect, rect) ==
  LET horiz == rect.x < freeRect.x + freeRect.width
               /\ rect.x + rect.width > freeRect.x
      vert == rect.y < freeRect.y + freeRect.height
              /\ rect.y + rect.height > freeRect.y
      bottom == IF horiz /\ rect.y > freeRect.y
                   /\ rect.y < freeRect.y + freeRect.height
                THEN << [freeRect EXCEPT !.height = rect.y - freeRect.y] >>
                ELSE << >>
      top == IF horiz /\ rect.y + rect.height > freeRect.y
                /\ rect.y + rect.height < freeRect.y + freeRect.height
             THEN << [freeRect EXCEPT
                        !.y = rect.y + rect.height,
                        !.height = freeRect.y + freeRect.height
                                   - (rect.y + rect.height)] >>
             ELSE << >>
      left == IF vert /\ rect.x > freeRect.x
                 /\ rect.x < freeRect.x + freeRect.width
              THEN << [freeRect EXCEPT !.width = rect.x - freeRect.x] >>
              ELSE << >>
      right == IF vert /\ rect.x + rect.width > freeRect.x
                  /\ rect.x + rect.width < freeRect.x + freeRect.width
               THEN << [freeRect EXCEPT
                          !.x = rect.x + rect.width,
                          !.width = freeRect.x + freeRect.width
                                    - (rect.x + rect.width)] >>
               ELSE << >>
  IN bottom \o top \o left \o right

\* list.pop(i) for a Python index i
Pop(list, i) == SubSeq(list, 1, i) \o SubSeq(list, i + 2, Len(list))

\* the loop of generateNewMaxSpaces advancing i after a pop as well, so
\* that the entry that moved to index i is not looked at
RECURSIVE MaxSpacesLoopSkipping(_, _, _, _)
MaxSpacesLoopSkipping(freeRects, rect, i, numFreeRects) ==
  IF ~(i < numFreeRects) THEN freeRects
  ELSE IF ~isOverlapping(freeRects[i + 1], rect)
       THEN MaxSpacesLoopSkipping(freeRects, rect, i + 1, numFreeRects)
       ELSE MaxSpacesLoopSkipping(
              Pop(freeRects \o NewFreeRects(freeRects[i + 1], rect), i),
              rect, i + 1, numFreeRects - 1)

\* the while loop of generateNewMaxSpaces: i and numFreeRects are the
\* Python variables; an overlapping entry is split, its residuals appended
\* and the entry popped without advancing i
RECURSIVE MaxSpacesLoop(_, _, _, _)
MaxSpacesLoop(freeRects, rect, i, numFreeRects) ==
  IF ~(i < numFreeRects) THEN freeRects
  ELSE LET freeRect == freeRects[i + 1] IN
       IF ~isOverlapping(freeRect, rect)
       THEN MaxSpacesLoop(freeRects, rect, i + 1, numFreeRects)
       ELSE MaxSpacesLoop(Pop(freeRects \o NewFreeRects(freeRect, rect), i),
                          rect, i, numFreeRects - 1)

\* generateNewMaxSpaces leaving the free spaces as they were
generateNewMaxSpacesKept(b, rect) == b

\* MaxSpaceBin.generateNewMaxSpaces
generateNewMaxSpaces(b, rect) ==
  [b EXCEPT !.freeRects = MaxSpacesLoop(b.freeRects, rect, 0, Len(b.freeRects))]

\* the inner loop of pruneMaxSpaces without its elif branch: an entry that
\* lies in a later one is kept
RECURSIVE PruneInnerForward(_, _, _, _)
PruneInnerForward(freeRects, i, j, toRemove) ==
  IF j >= Len(freeRects) THEN toRemove
  ELSE IF isContainedIn(freeRects[j + 1], freeRects[i + 1])
       THEN PruneInnerForward(freeRects, i, j + 1, toRemove \cup {j})
       ELSE PruneInnerForward(freeRects, i, j + 1, toRemove)

\* the inner loop of pruneMaxSpaces for a fixed i, from j on: the indices
\* added to toRemove (Python indices), stopping at the break
RECURSIVE PruneInner(_, _, _, _)
PruneInner(freeRects, i, j, toRemove) ==
  IF j >= Len(freeRects) THEN toRemove
  ELSE IF isContainedIn(freeRects[j + 1], freeRects[i + 1])
       THEN PruneInner(freeRects, i, j + 1, toRemove \cup {j})
       ELSE IF isContainedIn(freeRects[i + 1], freeRects[j + 1])
            THEN toRemove \cup {i}
            ELSE PruneInner(freeRects, i, j + 1, toRemove)

RECURSIVE PruneOuter(_, _, _)
PruneOuter(freeRects, i, toRemove) ==
  IF i >= Len(freeRects) THEN toRemove
  ELSE PruneOuter(freeRects, i + 1, PruneInner(freeRects, i, i + 1, toRemove))

\* [list[i] for i in range(len(list)) if i not in toRemove]
RECURSIVE Keep(_, _, _)
Keep(list, i, toRemove) ==
  IF i >= Len(list) THEN << >>
  ELSE (IF i \in toRemove THEN << >> ELSE << list[i + 1] >>)
       \o Keep(list, i + 1, toRemove)

\* the last line of pruneMaxSpaces: ValueError when no free space is left
\* in a bin that is not full
PruneCheck(b) ==
  [bin |-> b,
   ret |-> IF Len(b.freeRects) = 0 /\ OccupancyBelowOne(b)
           THEN Raise("ValueError") ELSE None]

\* MaxSpaceBin.pruneMaxSpaces: the bin afterwards, and in ret the exception
\* raised by the final consistency test (None when it returned)
pruneMaxSpaces(b) ==
  PruneCheck([b EXCEPT !.freeRects =
                Keep(b.freeRects, 0, PruneOuter(b.freeRects, 0, {}))])

\* lines 102-106 of insert: pack the Rect, split, prune
Commit(b, newRect) ==
  pruneMaxSpaces(generateNewMaxSpaces(packRect(b, newRect), newRect))

\* how insert ends after lines 102-106
Committed(pr) == [bin |-> pr.bin, ret |-> ~IsRaise(pr.ret), exc |-> pr.ret]

\* lines 97-106 of insert, ev being the bin and the Rect after lines 92-95
InsertTail(ev) ==
  IF IsRaise(ev.ret) THEN [bin |-> ev.bin, ret |-> FALSE, exc |-> ev.ret]
  ELSE IF ev.ret = None THEN [bin |-> ev.bin, ret |-> FALSE, exc |-> None]
  ELSE Committed(Commit(ev.bin, ev.ret))

\* MaxSpaceBin.insert: the bin afterwards, the boolean returned, and in exc
\* the exception that left the method instead (None when it returned)
insert(b, rect, heuristic) ==
  InsertTail(IF ~isReadyForPacking(rect)
             THEN evaluatePacking(b, rect, heuristic)
             ELSE [bin |-> b, ret |-> rect])

(* ------------------------- state of the model -------------------------- *)

VARIABLES
  bin,        \* SpecBin: one MaxSpaceBin driven directly through its methods
  out,        \* the last call and how it ended
  binWidth,   \* RBPSolution.binWidth
  binHeight,  \* RBPSolution.binHeight
  binList,    \* RBPSolution.binList
  rectList,   \* RBPSolution.rectList (NoList before the first pack)
  numRects,   \* RBPSolution.numRects (-1 for None)
  lowerbnd,   \* RBPSolution.lowerbnd (0 for None; the code tests it by truth)
  packs       \* number of direct calls of pack so far

solVars == <<binWidth, binHeight, binList, rectList, numRects, lowerbnd, packs>>

vars == <<bin, out, binWidth, binHeight, binList, rectList, numRects,
          lowerbnd, packs>>

(* ----------------------------- solution.py ----------------------------- *)

\* RBPSolution.openNewBin
openNewBin(sol) == MaxSpaceBin(sol.binWidth, sol.binHeight)

\* the sum computed by the loop of computeLowerBound
RECURSIVE TotalArea(_)
TotalArea(list) ==
  IF list = << >> THEN 0
  ELSE list[1].width * list[1].height + TotalArea(Tail(list))

\* RBPSolution.computeLowerBound: int(area / (binWidth*binHeight) + 1).  The
\* quotient of two small non-negative integers plus one, truncated, is the
\* integer quotient plus one.
computeLowerBound(sol, list) ==
  TotalArea(list) \div (sol.binWidth * sol.binHeight) + 1

\* n new bins in a list (lines 74-78 of pack)
RECURSIVE NewBins(_, _)
NewBins(sol, n) ==
  IF n = 0 THEN << >> ELSE Append(NewBins(sol, n - 1), openNewBin(sol))

\* the local variables of pack before the scan of the bins (lines 82-85);
\* bestBin is the Python index of the bin, -1 for None
NoBest(bins) ==
  [binList |-> bins, bestValue1 |-> Inf, bestValue2 |-> Inf, bestBin |-> -1,
   bestRect |-> None, exc |-> None]

\* lines 91-95 of pack with a candidate of equal scores replacing the best
\* so far
ScanTakeLast(acc, k, ev) ==
  IF IsRaise(ev.ret)
  THEN [acc EXCEPT !.binList[k + 1] = ev.bin, !.exc = ev.ret]
  ELSE IF /\ ev.ret # None
          /\ \/ ev.ret.score1 < acc.bestValue1
             \/ (ev.ret.score1 = acc.bestValue1
                 /\ ev.ret.score2 <= acc.bestValue2)
       THEN [acc EXCEPT !.binList[k + 1] = ev.bin,
                        !.bestValue1 = ev.ret.score1,
                        !.bestValue2 = ev.ret.score2,
                        !.bestBin = k, !.bestRect = ev.ret]
       ELSE [acc EXCEPT !.binList[k + 1] = ev.bin]

\* lines 91-95 of pack: ev is what evaluatePacking did to bin k and returned
ScanTake(acc, k, ev) ==
  IF IsRaise(ev.ret)
  THEN [acc EXCEPT !.binList[k + 1] = ev.bin, !.exc = ev.ret]
  ELSE IF /\ ev.ret # None
          /\ \/ ev.ret.score1 < acc.bestValue1
             \/ (ev.ret.score1 = acc.bestValue1
                 /\ ev.ret.score2 < acc.bestValue2)
       THEN [acc EXCEPT !.binList[k + 1] = ev.bin,
                        !.bestValue1 = ev.ret.score1,
                        !.bestValue2 = ev.ret.score2,
                        !.bestBin = k, !.bestRect = ev.ret]
       ELSE [acc EXCEPT !.binList[k + 1] = ev.bin]

\* the loop of lines 88-95 over the bins from Python index k on
RECURSIVE ScanBins(_, _, _, _)
ScanBins(acc, k, curRect, heur) ==
  IF k >= Len(acc.binList) \/ acc.exc # None THEN acc
  ELSE ScanBins(ScanTake(acc, k,
                         evaluatePacking(acc.binList[k + 1],
                                         removePackingInfo(curRect), heur)),
                k + 1, curRect, heur)

\* line 99: the best bin takes the Rect it proposed
InsertBest(acc, r) ==
  [binList |-> [acc.binList EXCEPT ![acc.bestBin + 1] = r.bin], exc |-> r.exc]

\* lines 103-105 without the append of the new bin
InsertNewLost(acc, r) == [binList |-> acc.binList, exc |-> r.exc]

\* lines 103-105: a new bin takes the item; what insert returns is not
\* looked at, and the bin joins the list unless insert raised
InsertNew(acc, r) ==
  [binList |-> IF r.exc = None THEN Append(acc.binList, r.bin)
               ELSE acc.binList,
   exc |-> r.exc]

\* lines 97-105 of pack, acc being the outcome of the scan of the bins
Place(sol, acc, curRect, heur) ==
  IF acc.exc # None THEN [binList |-> acc.binList, exc |-> acc.exc]
  ELSE IF acc.bestBin # -1
       THEN InsertBest(acc, insert(acc.binList[acc.bestBin + 1],
                                   acc.bestRect, heur))
       ELSE InsertNew(acc, insert(openNewBin(sol),
                                  removePackingInfo(curRect), heur))

\* the loop of lines 81-105 over the items from TLA+ index idx on; st is
\* the bin list so far and the exception that ended the loop, if any
RECURSIVE PackLoop(_, _, _, _)
PackLoop(sol, st, idx, heur) ==
  IF idx > Len(sol.rectList) \/ st.exc # None THEN st
  ELSE PackLoop(sol,
                Place(sol,
                      ScanBins(NoBest(st.binList), 0, sol.rectList[idx], heur),
                      sol.rectList[idx], heur),
                idx + 1, heur)

\* how pack ends: the solution with the bin list of st, and the exception
Packed(sol, st) == [sol |-> [sol EXCEPT !.binList = st.binList], exc |-> st.exc]

\* lines 73-105 of pack; iterating a rectList that is still None raises
\* TypeError after the bins were opened
PackBins(sol, heur, first) ==
  IF sol.rectList = NoList
  THEN Packed(sol, [binList |-> NewBins(sol, IF first THEN 1 ELSE sol.lowerbnd),
                    exc |-> Raise("TypeError")])
  ELSE Packed(sol, PackLoop(sol,
                            [binList |-> NewBins(sol, IF first THEN 1
                                                      ELSE sol.lowerbnd),
                             exc |-> None],
                            1, heur))

\* lines 66-67 of pack: a non-empty list replaces the working list
TakeList(sol, arg) ==
  [sol EXCEPT !.binList = << >>,
              !.rectList = IF arg # NoList /\ arg # << >> THEN arg
                           ELSE sol.rectList]

\* lines 68-70 of pack: the item count and the lower bound are set while
\* lowerbnd is still None
CacheBound(sol, arg) ==
  IF sol.lowerbnd = 0
  THEN [sol EXCEPT !.numRects = Len(arg),
                   !.lowerbnd = computeLowerBound(sol, arg)]
  ELSE sol

\* RBPSolution.pack(rectList, heur, first): the solution afterwards and the
\* exception that left the method (None when it returned).  arg is a list
\* of Rects or NoList; len(None) at line 69 raises TypeError.
pack(sol, arg, heur, first) ==
  IF sol.lowerbnd = 0 /\ arg = NoList
  THEN [sol |-> TakeList(sol, arg), exc |-> Raise("TypeError")]
  ELSE PackBins(CacheBound(TakeList(sol, arg), arg), heur, first)

\* RBPSolution.isFeasible
solutionIsFeasible(sol) ==
  /\ ~(Len(sol.binList) < sol.lowerbnd)
  /\ \A k \in 1..Len(sol.binList) : isFeasible(sol.binList[k])

\* the loop of getLeastFilledBin over the bins from TLA+ index k on.  All
\* bins of a solution have the same area, so an occupancy is kept as its
\* numerator occupiedArea; least starts at 2, that is twice the bin area.
\* leastFilled is the Python index of the bin, -1 for None.
RECURSIVE LeastFilledLoop(_, _, _, _)
LeastFilledLoop(sol, k, least, leastFilled) ==
  IF k > Len(sol.binList) THEN [ret |-> leastFilled, exc |-> None]
  ELSE IF \/ sol.binList[k].occupiedArea <= 0
          \/ sol.binList[k].occupiedArea > sol.binWidth * sol.binHeight
       THEN [ret |-> -1, exc |-> Raise("RuntimeError")]
       ELSE IF sol.binList[k].occupiedArea < least
            THEN LeastFilledLoop(sol, k + 1, sol.binList[k].occupiedArea, k - 1)
            ELSE LeastFilledLoop(sol, k + 1, least, leastFilled)

\* RBPSolution.getLeastFilledBin
getLeastFilledBin(sol) ==
  LeastFilledLoop(sol, 1, 2 * sol.binWidth * sol.binHeight, -1)

\* RBPSolution.getNumberOfBins
getNumberOfBins(sol) == Len(sol.binList)

\* line 195 with lf the outcome of getLeastFilledBin: the sum as a fraction
\* over the bin area; None.getOccupancy() raises AttributeError
ValueOf(sol, lf) ==
  IF lf.exc # None THEN [value |-> None, exc |-> lf.exc]
  ELSE IF lf.ret = -1 THEN [value |-> None, exc |-> Raise("AttributeError")]
  ELSE [value |-> << getNumberOfBins(sol) * sol.binWidth * sol.binHeight
                       + sol.binList[lf.ret + 1].occupiedArea,
                     sol.binWidth * sol.binHeight >>,
        exc |-> None]

\* RBPSolution.solutionValue: the value as a fraction, or the exception
solutionValue(sol) == ValueOf(sol, getLeastFilledBin(sol))

\* list[k:] for a Python index k that may be negative or past the end
SliceFrom(list, k) ==
  SubSeq(list,
         (IF k < 0 THEN Max(k + Len(list), 0) ELSE Min(k, Len(list))) + 1,
         Len(list))

\* list[:k] for k >= 0
SliceTo(list, k) == SubSeq(list, 1, Min(k, Len(list)))

\* one element put into a list sorted by descending area, behind every
\* element that is not smaller: list.sort(reverse=True) is stable and
\* compares with Rect.__lt__
RECURSIVE InsertDescending(_, _)
InsertDescending(sorted, r) ==
  IF sorted = << >> THEN << r >>
  ELSE IF RectLt(sorted[1], r) THEN << r >> \o sorted
  ELSE << sorted[1] >> \o InsertDescending(Tail(sorted), r)

\* subList.sort(reverse=True)
RECURSIVE SortDescending(_)
SortDescending(list) ==
  IF list = << >> THEN << >>
  ELSE InsertDescending(SortDescending(SubSeq(list, 1, Len(list) - 1)),
                        list[Len(list)])

\* RBPSolution.swap, for Python indices
swap(subList, idx1, idx2) ==
  [subList EXCEPT ![idx1 + 1] = subList[idx2 + 1],
                  ![idx2 + 1] = subList[idx1 + 1]]

\* the values of number in perturb (lines 223-225) for a list of n items:
\* max(int(strength*n + 0.5), 1) with strength in [0.025, 0.15), taken in
\* steps of one thousandth
SwapCounts(n) == {Max((st * n + 500) \div 1000, 1) : st \in 25..149}

\* the lists the loop of perturb (lines 226-231) can leave after number
\* swaps of two distinct random positions
RECURSIVE Swapped(_, _)
Swapped(subList, number) ==
  IF number = 0 THEN {subList}
  ELSE UNION {Swapped(swap(subList, idx[1], idx[2]), number - 1) :
                idx \in {p \in (0..(Len(subList) - 1)) \X (0..(Len(subList) - 1)) :
                           p[1] # p[2]}}

\* RBPSolution.perturb: the lists it can leave in place of subList
perturb(subList) ==
  IF Len(subList) <= 2 THEN {subList}
  ELSE UNION {Swapped(subList, number) : number \in SwapCounts(Len(subList))}

\* lines 131-134 of removeAndRepack: int(percentage*numRects + 1), at least
\* 2; the percentage is the fraction pct[1]/pct[2]
RemovalCount(sol, pct) == Max((pct[1] * sol.numRects) \div pct[2] + 1, 2)

\* lines 136-139: the slice of the working list that is reordered
Removed(sol, pct, reverse) ==
  IF reverse THEN SliceTo(sol.rectList, RemovalCount(sol, pct))
  ELSE SliceFrom(sol.rectList, sol.numRects - RemovalCount(sol, pct))

\* lines 141-144: the lists subList can hold afterwards
Reordered(subList, sort) ==
  IF sort THEN {SortDescending(subList)} ELSE perturb(subList)

\* lines 147-150: the slice assignment
WriteBack(sol, pct, reverse, subList) ==
  [sol EXCEPT !.rectList =
     IF reverse
     THEN subList \o SliceFrom(sol.rectList, RemovalCount(sol, pct))
     ELSE SubSeq(sol.rectList, 1,
                 Len(sol.rectList) - Len(Removed(sol, pct, reverse)))
          \o subList]

\* removeAndRepack without the test of the percentage (lines 125-126)
removeAndRepackUnchecked(sol, heur, pct, reverse, sort, first) ==
  IF sol.rectList = NoList \/ sol.rectList = << >>
  THEN {[sol |-> sol, exc |-> Raise("RuntimeError")]}
  ELSE {pack(WriteBack(sol, pct, reverse, subList), NoList, heur, first) :
          subList \in Reordered(Removed(sol, pct, reverse), sort)}

\* RBPSolution.removeAndRepack: the outcomes it can have, each the solution
\* afterwards and the exception that left the method (None when it
\* returned)
removeAndRepack(sol, heur, pct, reverse, sort, first) ==
  IF pct[1] < 0 \/ pct[1] > pct[2]
  THEN {[sol |-> sol, exc |-> Raise("ValueError")]}
  ELSE IF sol.rectList = NoList \/ sol.rectList = << >>
       THEN {[sol |-> sol, exc |-> Raise("RuntimeError")]}
       ELSE {pack(WriteBack(sol, pct, reverse, subList), NoList, heur, first) :
               subList \in Reordered(Removed(sol, pct, reverse), sort)}

(* --------------------- Spec: a solution and its calls ------------------ *)

\* bin sizes a solution is constructed with
SolDims == {<<2, 2>>}

\* the sizes of the items handed to pack; the last fits no bin
SolItems == {<<1, 1>>, <<2, 1>>, <<3, 1>>}

\* the lists of n new Rects
RECURSIVE ItemLists(_)
ItemLists(n) ==
  IF n = 0 THEN {<< >>}
  ELSE {Append(l, Rect(i[1], i[2])) : l \in ItemLists(n - 1), i \in SolItems}

\* what pack is called with: no list, or a list of up to MaxLen new Rects
PackArgs == {NoList} \cup UNION {ItemLists(n) : n \in 0..MaxLen}

\* the percentages removeAndRepack is called with, as fractions; the first
\* and the last lie outside [0, 1]
Percentages == {<<-1, 4>>, <<0, 1>>, <<3, 4>>, <<1, 1>>, <<5, 4>>}

\* the RBPSolution object
Self ==
  [binWidth |-> binWidth, binHeight |-> binHeight, binList |-> binList,
   rectList |-> rectList, numRects |-> numRects, lowerbnd |-> lowerbnd]

\* the fields of the RBPSolution object become those of sol
Becomes(sol) ==
  /\ binWidth' = sol.binWidth
  /\ binHeight' = sol.binHeight
  /\ binList' = sol.binList
  /\ rectList' = sol.rectList
  /\ numRects' = sol.numRects
  /\ lowerbnd' = sol.lowerbnd

\* RBPSolution.__init__
Init ==
  /\ \E d \in SolDims : binWidth = d[1] /\ binHeight = d[2]
  /\ binList = << >>
  /\ rectList = NoList
  /\ numRects = -1
  /\ lowerbnd = 0
  /\ packs = 0
  /\ out = [call |-> "init"]
  /\ bin = None

\* a call of pack by the user of the solution
Pack(arg, heur, first) ==
  /\ packs < MaxPacks
  /\ packs' = packs + 1
  /\ \E r \in {pack(Self, arg, heur, first)} :
       /\ Becomes(r.sol)
       /\ out' = [call |-> "pack", exc |-> r.exc, heur |-> heur,
                  first |-> first]
  /\ UNCHANGED bin

\* a call of removeAndRepack by the user of the solution
RemoveAndRepack(heur, pct, reverse, sort, first) ==
  /\ \E r \in removeAndRepack(Self, heur, pct, reverse, sort, first) :
       /\ Becomes(r.sol)
       /\ out' = [call |-> "removeAndRepack", exc |-> r.exc]
  /\ UNCHANGED <<bin, packs>>

Next ==
  \/ \E arg \in PackArgs, heur \in PackingHeuristic, first \in BOOLEAN :
       Pack(arg, heur, first)
  \/ \E heur \in PackingHeuristic, pct \in Percentages,
        reverse \in BOOLEAN, sort \in BOOLEAN, first \in BOOLEAN :
       RemoveAndRepack(heur, pct, reverse, sort, first)

Spec == Init /\ [][Next]_vars

(* ------------- SpecWide: one pack of a new solution, more sizes -------- *)

\* bin sizes of the solutions that pack once
WideDims == {<<2, 2>>, <<3, 2>>}

\* the sizes of the items packed once; each fits every bin of WideDims
WideItems == {<<1, 1>>, <<2, 1>>, <<2, 2>>}

\* the lists of n new Rects of these sizes
RECURSIVE WideLists(_)
WideLists(n) ==
  IF n = 0 THEN {<< >>}
  ELSE {Append(l, Rect(i[1], i[2])) : l \in WideLists(n - 1), i \in WideItems}

\* the non-empty lists of up to MaxLen items
WideArgs == UNION {WideLists(n) : n \in 1..MaxLen}

\* RBPSolution.__init__
InitWide ==
  /\ \E d \in WideDims : binWidth = d[1] /\ binHeight = d[2]
  /\ binList = << >>
  /\ rectList = NoList
  /\ numRects = -1
  /\ lowerbnd = 0
  /\ packs = 0
  /\ out = [call |-> "init"]
  /\ bin = None

\* the first call of pack on the solution
NextWide ==
  \E arg \in WideArgs, heur \in PackingHeuristic, first \in BOOLEAN :
    packs = 0 /\ Pack(arg, heur, first)

SpecWide == InitWide /\ [][NextWide]_vars

(* ------------------ SpecBin: a bin used on its own --------------------- *)

\* bin sizes a stand-alone bin is constructed with
BinDims == {<<3, 3>>, <<3, 2>>}

\* the items offered to a stand-alone bin: all sizes that fit the largest
\* bin, and one size too wide for every bin
BinItems == ((1..3) \X (1..3)) \cup {<<4, 1>>}

\* RBPSolution.__init__ before any call
NoSolution ==
  /\ binWidth = 0 /\ binHeight = 0 /\ binList = << >> /\ rectList = NoList
  /\ numRects = -1 /\ lowerbnd = 0 /\ packs = 0

\* MaxSpaceBin(w, h) and init().  canRotate is a public field no method
\* writes: the constructor leaves it False and the caller may set it before
\* the first use, so both values start a run.
InitBin ==
  /\ \E d \in BinDims, rot \in BOOLEAN :
       bin = [MaxSpaceBin(d[1], d[2]) EXCEPT !.canRotate = rot]
  /\ out = [call |-> "init"]
  /\ NoSolution

\* Bin.setup on a used bin
BinSetup ==
  /\ Len(bin.packedRects) > 0
  /\ bin' = [setupFreeRects([bin EXCEPT !.packedRects = << >>])
               EXCEPT !.occupiedArea = 0, !.touchingPerimeter = 0]
  /\ out' = [call |-> "setup"]
  /\ UNCHANGED solVars

\* evaluatePacking(Rect(w, h), heur) called by the user of the bin, who
\* keeps or drops the Rect it returns
BinEvaluate(item, heur) ==
  \E ev \in {evaluatePacking(bin, Rect(item[1], item[2]), heur)} :
    /\ bin' = ev.bin
    /\ out' = [call |-> "evaluatePacking",
               exc |-> IF IsRaise(ev.ret) THEN ev.ret ELSE None]
    /\ UNCHANGED solVars

\* insert(Rect(w, h), heur) of an item that carries no position: insert
\* evaluates it itself
BinInsertItem(item, heur) ==
  /\ Len(bin.packedRects) < MaxPacked
  /\ \E r \in {insert(bin, Rect(item[1], item[2]), heur)} :
       /\ bin' = r.bin
       /\ out' = [call |-> "insert", ret |-> r.ret, exc |-> r.exc]
  /\ UNCHANGED solVars

\* what RBPSolution.pack does with a bin that accepts the item:
\* newRect = evaluatePacking(curRect, heur), then insert(newRect, heur) of
\* the positioned Rect (insert takes it as it is)
BinInsertEvaluated(item, heur) ==
  /\ Len(bin.packedRects) < MaxPacked
  /\ \E ev \in {evaluatePacking(bin, removePackingInfo(Rect(item[1], item[2])),
                                heur)} :
       /\ ev.ret # None /\ ~IsRaise(ev.ret)
       /\ \E r \in {insert(ev.bin, ev.ret, heur)} :
            /\ bin' = r.bin
            /\ out' = [call |-> "insert", ret |-> r.ret, exc |-> r.exc]
  /\ UNCHANGED solVars

NextBin ==
  \/ BinSetup
  \/ \E item \in BinItems, heur \in PackingHeuristic : BinEvaluate(item, heur)
  \/ \E item \in BinItems, heur \in PackingHeuristic : BinInsertItem(item, heur)
  \/ \E item \in BinItems, heur \in PackingHeuristic :
       BinInsertEvaluated(item, heur)

SpecBin == InitBin /\ [][NextBin]_vars

(* ------------------- properties of a bin used on its own --------------- *)

\* the unit cells of the grid a rectangle covers
CellsOf(r) ==
  {c \in (r.x .. r.x + r.width - 1) \X (r.y .. r.y + r.height - 1) : TRUE}

\* the unit cells covered by some rectangle of a list
CellsOfAll(list) == UNION {CellsOf(list[k]) : k \in 1..Len(list)}

RECURSIVE SumAreas(_)
SumAreas(list) ==
  IF list = << >> THEN 0
  ELSE list[1].width * list[1].height + SumAreas(Tail(list))

\* a successful insert has just returned
InsertReturnedTrue == out.call = "insert" /\ out.ret

\* the bin as it was before its latest item: the items before it inserted
\* one by one into an empty bin of the same size and rotation flag
RECURSIVE Replay(_, _)
Replay(b, n) ==
  IF n = 0
  THEN [MaxSpaceBin(b.binWidth, b.binHeight) EXCEPT !.canRotate = b.canRotate]
  ELSE Commit(Replay(b, n - 1), b.packedRects[n]).bin

\* the free spaces of the latest insert after the split, before the prune
SplitOfLast(b) ==
  generateNewMaxSpaces(Replay(b, Len(b.packedRects) - 1),
                       b.packedRects[Len(b.packedRects)]).freeRects

\* C6: in every state of a bin, after setup and after inserts that succeed
\* or fail, occupiedArea is the sum of width*height over packedRects.
C6_AreaConservation == bin.occupiedArea = SumAreas(bin.packedRects)

\* C6 witness: an insert has just failed on a bin that holds two items
C6_Witness ==
  /\ out.call = "insert" /\ ~out.ret
  /\ Len(bin.packedRects) = 2
  /\ bin.occupiedArea > 0

\* no entry of the list lies in a different entry (equal extents included)
NoContainment(list) ==
  \A i, j \in 1..Len(list) : i # j => ~isContainedIn(list[i], list[j])

\* the entries of a list that lie in no entry of a different extent and in
\* no equal entry of a smaller index, in list order
RECURSIVE EarliestMaximal(_, _)
EarliestMaximal(list, i) ==
  IF i > Len(list) THEN << >>
  ELSE (IF \E j \in 1..Len(list) :
             /\ j # i
             /\ isContainedIn(list[i], list[j])
             /\ (isContainedIn(list[j], list[i]) => j < i)
        THEN << >> ELSE << list[i] >>)
       \o EarliestMaximal(list, i + 1)

\* C7: a step that adds an item to the bin (a successful insert) leaves in
\* freeRects exactly the entries of the split list that lie in no other
\* entry, the earlier of two equal entries being the one kept; so no entry
\* of freeRects lies in a different one.
C7_PruneLeavesMaximal ==
  [][Len(bin'.packedRects) = Len(bin.packedRects) + 1
       => /\ bin'.freeRects = EarliestMaximal(SplitOfLast(bin'), 1)
          /\ NoContainment(bin'.freeRects)]_vars

\* C7 witness: a successful insert whose prune removed an entry of the
\* split list and left at least two
C7_Witness ==
  /\ InsertReturnedTrue
  /\ Len(bin.freeRects) >= 2
  /\ Len(SplitOfLast(bin)) > Len(bin.freeRects)

\* C8: after setup and after every successful insert, every free space has
\* positive width and height and lies inside the bin, and the free spaces
\* cover exactly the cells of the bin that no packed item covers.
C8_FreeSpaceExact ==
  /\ \A i \in 1..Len(bin.freeRects) :
       LET f == bin.freeRects[i] IN
       /\ f.width > 0 /\ f.height > 0
       /\ f.x >= 0 /\ f.y >= 0
       /\ f.x + f.width <= bin.binWidth /\ f.y + f.height <= bin.binHeight
  /\ CellsOfAll(bin.freeRects) =
       ((0 .. bin.binWidth - 1) \X (0 .. bin.binHeight - 1))
         \ CellsOfAll(bin.packedRects)

\* C8 witness: a successful insert of an item that two neighbouring entries
\* of the scanned list overlapped (the second moves to the index of the
\* first when that is popped), leaving free space
C8_Witness ==
  /\ InsertReturnedTrue
  /\ Len(bin.freeRects) >= 1
  /\ LET before == Replay(bin, Len(bin.packedRects) - 1).freeRects
         last == bin.packedRects[Len(bin.packedRects)]
     IN \E i \in 1..(Len(before) - 1) :
          isOverlapping(before[i], last) /\ isOverlapping(before[i + 1], last)

\* the value evaluatePacking returns in the current state
Returned(item, heur) == evaluatePacking(bin, Rect(item[1], item[2]), heur).ret

FrameHolds(pre, ev, rect, heur) ==
  /\ ev.bin = [pre EXCEPT !.packHeur = IF pre.packHeur = NoHeur
                                       THEN heur ELSE pre.packHeur]
  /\ evaluatePacking(ev.bin, rect, heur).ret = ev.ret

Admits(b, item) ==
  \E i \in 1..Len(b.freeRects) :
    \/ item[1] <= b.freeRects[i].width /\ item[2] <= b.freeRects[i].height
    \/ /\ b.canRotate
       /\ item[2] <= b.freeRects[i].width /\ item[1] <= b.freeRects[i].height

\* the candidate is the item, upright or (with rotation enabled) rotated,
\* at the origin of a free space it fits in
WellPlaced(b, item, c) ==
  /\ \/ c.width = item[1] /\ c.height = item[2]
     \/ b.canRotate /\ c.width = item[2] /\ c.height = item[1]
  /\ \E i \in 1..Len(b.freeRects) :
       /\ c.x = b.freeRects[i].x /\ c.y = b.freeRects[i].y
       /\ c.width <= b.freeRects[i].width
       /\ c.height <= b.freeRects[i].height

\* C10: for each heuristic, with rotation disabled or enabled,
\* evaluatePacking raises nothing, returns None exactly when no free space
\* admits the item, and otherwise returns a well placed candidate.
C10_EvaluateTotal ==
  [][\A item \in BinItems, heur \in PackingHeuristic :
       BinEvaluate(item, heur) =>
         /\ out'.exc = None
         /\ ~IsRaise(Returned(item, heur))
         /\ (Returned(item, heur) = None) <=> ~Admits(bin, item)
         /\ Returned(item, heur) # None
              => WellPlaced(bin, item, Returned(item, heur))]_vars

(* ------------------------ properties of a solution --------------------- *)

\* every item of the list is no wider and no taller than the bin
AllFit(list) ==
  \A k \in 1..Len(list) :
    list[k].width <= binWidth /\ list[k].height <= binHeight

\* the packed items of the bins of a list, bin after bin
RECURSIVE PackedItems(_)
PackedItems(bins) ==
  IF bins = << >> THEN << >>
  ELSE bins[1].packedRects \o PackedItems(Tail(bins))

\* how many entries of a list have the width w and the height h
Count(list, w, h) ==
  Cardinality({k \in 1..Len(list) : list[k].width = w /\ list[k].height = h})

\* each packed item covers cells of the bin only, and no cell is covered by
\* two packed items
GeometricallyFeasible(b) ==
  /\ \A i \in 1..Len(b.packedRects) :
       /\ b.packedRects[i].x >= 0 /\ b.packedRects[i].y >= 0
       /\ b.packedRects[i].x + b.packedRects[i].width <= b.binWidth
       /\ b.packedRects[i].y + b.packedRects[i].height <= b.binHeight
  /\ \A i, j \in 1..Len(b.packedRects) :
       i # j => CellsOf(b.packedRects[i]) \cap CellsOf(b.packedRects[j]) = {}

\* the latest call was pack, and it returned
PackReturned == out.call = "pack" /\ out.exc = None

\* the latest call was removeAndRepack, and it returned
RepackReturned == out.call = "removeAndRepack" /\ out.exc = None

\* every item of the working list is packed: the bins hold as many items as
\* the list, and as many of each width and height
AllPacked ==
  /\ Len(PackedItems(binList)) = Len(rectList)
  /\ \A w \in 1..binWidth, h \in 1..binHeight :
       Count(PackedItems(binList), w, h) = Count(rectList, w, h)

\* C1: once pack was called with a list whose items each fit the bin, and
\* after every removeAndRepack that follows, each packed item of each bin
\* lies within the bin and no two packed items of a bin share interior.
C1_BinsFeasible ==
  (rectList # NoList /\ AllFit(rectList))
    => \A k \in 1..Len(binList) : GeometricallyFeasible(binList[k])

\* C1 witness: removeAndRepack has returned on three fitting items, with
\* two bins of which one holds two items
C1_Witness ==
  /\ RepackReturned
  /\ rectList # NoList /\ Len(rectList) = 3 /\ AllFit(rectList)
  /\ Len(binList) >= 2
  /\ \E k \in 1..Len(binList) : Len(binList[k].packedRects) = 2

\* C2 as claimed: pack never returns normally while an item of the working
\* list that is wider or taller than the bin is absent from every bin.
C2_OversizeSignalled ==
  ~(/\ PackReturned
    /\ rectList # NoList
    /\ \E k \in 1..Len(rectList) :
         /\ rectList[k].width > binWidth \/ rectList[k].height > binHeight
         /\ Count(PackedItems(binList), rectList[k].width,
                  rectList[k].height) = 0)

\* C3: after pack has returned on a working list whose items each fit the
\* bin, the bins together hold as many items as the working list, and the
\* same number of items of each width and height.
C3_AllPacked ==
  (PackReturned /\ rectList # NoList /\ AllFit(rectList)) => AllPacked

\* C3 witness: the second pack has returned on three fitting items that
\* took more than one bin
C3_Witness ==
  /\ PackReturned /\ packs = 2
  /\ rectList # NoList /\ Len(rectList) = 3 /\ AllFit(rectList)
  /\ Len(binList) >= 2

\* C4 as claimed: after pack and after removeAndRepack on items that each
\* fit the bin, RBPSolution.isFeasible() is true.
C4_SolutionFeasible ==
  (/\ PackReturned \/ RepackReturned
   /\ rectList # NoList /\ AllFit(rectList))
    => solutionIsFeasible(Self)

\* C5 as claimed: the lower bound is a valid minimum.  The bins pack has
\* produced from fitting items are an in-bounds, overlap-free packing of
\* all items, so the lower bound of the working list is at most their
\* number.
C5_LowerBoundValid ==
  (/\ PackReturned
   /\ rectList # NoList /\ AllFit(rectList)
   /\ \A k \in 1..Len(binList) : GeometricallyFeasible(binList[k])
   /\ AllPacked)
    => computeLowerBound(Self, rectList) <= Len(binList)

\* the smallest number of a non-empty set of numbers
Least(S) == CHOOSE m \in S : \A n \in S : m <= n

\* C11 as claimed: for a solution pack has produced from a non-empty list
\* of fitting items, every bin has an occupancy in (0, 1], solutionValue()
\* raises nothing and returns the number of bins plus the smallest
\* occupancy over the bins.
C11_ValueDefined ==
  (PackReturned /\ rectList # NoList /\ rectList # << >> /\ AllFit(rectList))
    => /\ \A k \in 1..Len(binList) :
            /\ binList[k].occupiedArea > 0
            /\ binList[k].occupiedArea <= binWidth * binHeight
       /\ solutionValue(Self) =
            [value |-> << Len(binList) * binWidth * binHeight
                            + Least({binList[k].occupiedArea :
                                       k \in 1..Len(binList)}),
                          binWidth * binHeight >>,
             exc |-> None]

\* the percentage lies outside [0, 1]
OutOfRange(pct) == pct[1] < 0 \/ pct[1] > pct[2]

\* C12: in every state, removeAndRepack called with a percentage below 0 or
\* above 1, or on a solution on which pack was never called, has one
\* outcome: it raises (ValueError for the percentage, else RuntimeError),
\* and the working order, the bin list, numRects and the lower bound are
\* what they were.
C12_ErrorsLeaveState ==
  \A heur \in PackingHeuristic, pct \in Percentages,
     reverse \in BOOLEAN, sort \in BOOLEAN, first \in BOOLEAN :
    (OutOfRange(pct) \/ packs = 0) =>
      removeAndRepack(Self, heur, pct, reverse, sort, first) =
        {[sol |-> Self,
          exc |-> IF OutOfRange(pct) THEN Raise("ValueError")
                  ELSE Raise("RuntimeError")]}

\* C12 witness: removeAndRepack has raised ValueError on a solution that
\* holds packed items in two bins
C12_Witness ==
  /\ out.call = "removeAndRepack" /\ out.exc = Raise("ValueError")
  /\ Len(binList) >= 2
  /\ Len(PackedItems(binList)) >= 2
  /\ numRects > 0 /\ lowerbnd > 0

\* the positions (TLA+ indices) the claimed slice of n positions leaves
\* alone: all but the last number positions when reverse, all but the first
\* number positions otherwise
OutsideClaimed(n, number, reverse) ==
  IF reverse THEN 1..(n - number) ELSE (number + 1)..n

\* C13 as claimed: with number <= numRects, removeAndRepack with
\* reverse=True re-orders only the last number positions of the working
\* order and with reverse=False only the first number positions; every
\* other position holds the same item after the call as before it.
C13_SliceAsClaimed ==
  \A heur \in PackingHeuristic, pct \in Percentages,
     reverse \in BOOLEAN, sort \in BOOLEAN, first \in BOOLEAN :
    (/\ ~OutOfRange(pct)
     /\ rectList # NoList /\ numRects = Len(rectList)
     /\ RemovalCount(Self, pct) <= numRects)
      => \A r \in removeAndRepack(Self, heur, pct, reverse, sort, first) :
           \A k \in OutsideClaimed(numRects, RemovalCount(Self, pct), reverse) :
             r.sol.rectList[k] = rectList[k]

\* C14 as claimed: with percentage 1.0, for either value of reverse and a
\* working list of at least one item, the sub-range removeAndRepack
\* re-orders is the whole working list; with sort=True the working list
\* afterwards is the whole list sorted by descending area.
C14_WholeList ==
  \A heur \in PackingHeuristic, reverse \in BOOLEAN, first \in BOOLEAN :
    (rectList # NoList /\ rectList # << >> /\ numRects = Len(rectList))
      => /\ Removed(Self, <<1, 1>>, reverse) = rectList
         /\ \A r \in removeAndRepack(Self, heur, <<1, 1>>, reverse, TRUE, first) :
              r.sol.rectList = SortDescending(rectList)

\* the packed items of each bin of a list, bin by bin
Assignment(bins) == [k \in 1..Len(bins) |-> bins[k].packedRects]

\* the bins (TLA+ indices) that return a candidate for the item
Accepting(bins, item, heur) ==
  {k \in 1..Len(bins) : Dispatch(bins[k], item, heur) # None}

\* first fit: each item of the working list from index idx on goes, at the
\* place its heuristic proposes, into the lowest-index bin that returns a
\* candidate for it, and into a new bin when no bin does
RECURSIVE FirstFit(_, _, _, _)
FirstFit(sol, bins, idx, heur) ==
  IF idx > Len(sol.rectList) THEN bins
  ELSE LET item == removePackingInfo(sol.rectList[idx])
           acc == Accepting(bins, item, heur)
       IN IF acc # {}
          THEN FirstFit(sol,
                        [bins EXCEPT ![Least(acc)] =
                           insert(bins[Least(acc)],
                                  Dispatch(bins[Least(acc)], item, heur),
                                  heur).bin],
                        idx + 1, heur)
          ELSE FirstFit(sol,
                        Append(bins, insert(openNewBin(sol), item, heur).bin),
                        idx + 1, heur)

\* C15 as claimed: pack with first=True puts each item into the first
\* available bin, the lowest-index open bin that returns a candidate for
\* it, so after the call the bins hold what first fit from one open bin
\* gives them.
C15_FirstAvailable ==
  (PackReturned /\ out.first)
    => Assignment(binList) =
         Assignment(FirstFit(Self, << openNewBin(Self) >>, 1, out.heur))

\* the score pair a is lexicographically below the score pair of b
ScoreBelow(a, b) ==
  a.score1 < b.score1 \/ (a.score1 = b.score1 /\ a.score2 < b.score2)

\* the accepting bin whose candidate has the smallest score pair, the
\* lowest index among those of equal pairs
BestOf(bins, item, heur) ==
  CHOOSE k \in Accepting(bins, item, heur) :
    \A j \in Accepting(bins, item, heur) \ {k} :
      \/ ScoreBelow(Dispatch(bins[k], item, heur), Dispatch(bins[j], item, heur))
      \/ /\ ~ScoreBelow(Dispatch(bins[j], item, heur),
                        Dispatch(bins[k], item, heur))
         /\ k < j

\* best fit: each item of the working list from index idx on goes, at the
\* place its heuristic proposes, into the bin BestOf names, and into a new
\* bin behind the others when no bin returns a candidate
RECURSIVE BestFit(_, _, _, _)
BestFit(sol, bins, idx, heur) ==
  IF idx > Len(sol.rectList) THEN bins
  ELSE LET item == removePackingInfo(sol.rectList[idx])
       IN IF Accepting(bins, item, heur) # {}
          THEN LET k == BestOf(bins, item, heur)
               IN BestFit(sol,
                          [bins EXCEPT ![k] =
                             insert(bins[k], Dispatch(bins[k], item, heur),
                                    heur).bin],
                          idx + 1, heur)
          ELSE BestFit(sol,
                       Append(bins, insert(openNewBin(sol), item, heur).bin),
                       idx + 1, heur)

\* C16: after pack with first=False has returned, the bins hold what best
\* fit gives them, started from lowerbnd open bins: each item, in
\* working-list order, in the open bin with the smallest (score1, score2),
\* the earliest of equal ones, a new bin appended only when no open bin
\* returns a candidate, and no bin removed or moved.
C16_BestBin ==
  (PackReturned /\ ~out.first)
    => Assignment(binList) =
         Assignment(BestFit(Self, NewBins(Self, lowerbnd), 1, out.heur))

\* C16 witness: pack with first=False has returned on three items, a bin
\* was appended to those opened up front, and some item is not in the
\* first bin that returned a candidate for it
C16_Witness ==
  /\ PackReturned /\ ~out.first
  /\ Len(rectList) = 3
  /\ Len(binList) > lowerbnd
  /\ Assignment(binList) #
       Assignment(FirstFit(Self, NewBins(Self, lowerbnd), 1, out.heur))

\* the rectangles of positive size at integer positions inside the bin
\* that overlap no packed item, as <<x, y, width, height>>
FreePlacements(b) ==
  LET occupied == CellsOfAll(b.packedRects)
  IN {c \in (0..(b.binWidth - 1)) \X (0..(b.binHeight - 1))
            \X (1..b.binWidth) \X (1..b.binHeight) :
        /\ c[1] + c[3] <= b.binWidth /\ c[2] + c[4] <= b.binHeight
        /\ CellsOf([x |-> c[1], y |-> c[2], width |-> c[3], height |-> c[4]])
             \cap occupied = {}}

\* two unit cells share a side
SideBySide(c, d) ==
  \/ c[1] = d[1] /\ (c[2] = d[2] + 1 \/ d[2] = c[2] + 1)
  \/ c[2] = d[2] /\ (c[1] = d[1] + 1 \/ d[1] = c[1] + 1)

\* the length of the boundary of the placement c that lies on the four
\* outer edges of the bin (left, right, bottom, top) plus the length it
\* shares with packed items: the pairs of a cell of c and a packed cell
\* that share a side
BoundaryTouched(b, c) ==
  (IF c[1] = 0 THEN c[4] ELSE 0)
  + (IF c[1] + c[3] = b.binWidth THEN c[4] ELSE 0)
  + (IF c[2] = 0 THEN c[3] ELSE 0)
  + (IF c[2] + c[4] = b.binHeight THEN c[3] ELSE 0)
  + Cardinality(
      {p \in CellsOf([x |-> c[1], y |-> c[2], width |-> c[3], height |-> c[4]])
               \X CellsOfAll(b.packedRects) : SideBySide(p[1], p[2])})

\* C17 as claimed: for every rectangle inside the bin that overlaps no
\* packed item, computeTouchingPerimeter returns the length of its boundary
\* on the four outer edges of the bin, each edge counted when touched, plus
\* the length of the boundary it shares with packed items.
C17_TouchingPerimeter ==
  \A c \in FreePlacements(bin) :
    computeTouchingPerimeter(bin, c[1], c[2], c[3], c[4]) = BoundaryTouched(bin, c)

\* the width and the height of the item placed upright or rotated
PlacedWidth(item, rot) == IF rot THEN item[2] ELSE item[1]
PlacedHeight(item, rot) == IF rot THEN item[1] ELSE item[2]

\* the feasible pairs <<free space (TLA+ index), rotated>> of an item
FeasiblePairs(b, item) ==
  {p \in (1..Len(b.freeRects)) \X BOOLEAN :
     /\ p[2] => b.canRotate
     /\ PlacedWidth(item, p[2]) <= b.freeRects[p[1]].width
     /\ PlacedHeight(item, p[2]) <= b.freeRects[p[1]].height}

\* the area of the free space less the area of the item
WastedArea(b, item, p) ==
  b.freeRects[p[1]].width * b.freeRects[p[1]].height - item[1] * item[2]

\* the smaller of the two leftovers of the free space
ShortSide(b, item, p) ==
  Min(b.freeRects[p[1]].width - PlacedWidth(item, p[2]),
      b.freeRects[p[1]].height - PlacedHeight(item, p[2]))

\* the pair p comes before the pair q: a smaller (wasted area, short side),
\* and of equal ones the earlier free space, upright before rotated
PairBefore(b, item, p, q) ==
  \/ WastedArea(b, item, p) < WastedArea(b, item, q)
  \/ /\ WastedArea(b, item, p) = WastedArea(b, item, q)
     /\ \/ ShortSide(b, item, p) < ShortSide(b, item, q)
        \/ /\ ShortSide(b, item, p) = ShortSide(b, item, q)
           /\ \/ p[1] < q[1]
              \/ p[1] = q[1] /\ ~p[2] /\ q[2]

\* the candidate the claim describes: None without a feasible pair, else
\* the item in the orientation and at the origin of the first pair, with
\* its wasted area and short side as scores
BestAreaClaimed(b, item) ==
  IF FeasiblePairs(b, item) = {} THEN None
  ELSE LET p == CHOOSE p \in FeasiblePairs(b, item) :
                  \A q \in FeasiblePairs(b, item) \ {p} : PairBefore(b, item, p, q)
       IN [width |-> PlacedWidth(item, p[2]),
           height |-> PlacedHeight(item, p[2]),
           x |-> b.freeRects[p[1]].x, y |-> b.freeRects[p[1]].y,
           score1 |-> WastedArea(b, item, p),
           score2 |-> ShortSide(b, item, p)]

\* C18: in every state of the bin and for every item, the candidate
\* evaluatePacking returns with BestAreaFit has score1 = area of the chosen
\* free space less the item area and score2 = the smaller leftover, the
\* pair is lexicographically minimal over all feasible (free space,
\* orientation) pairs, and of equal pairs the earliest free space, upright
\* before rotated, is chosen.
C18_BestAreaScores ==
  \A item \in BinItems :
    evaluatePacking(bin, Rect(item[1], item[2]), BestAreaFit).ret =
      BestAreaClaimed(bin, item)

\* C18 witness: evaluatePacking has returned on a bin with rotation enabled
\* and two free spaces, in which some item has two feasible pairs of equal
\* score pair and some item is best placed rotated
C18_Witness ==
  /\ out.call = "evaluatePacking" /\ out.exc = None
  /\ bin.packHeur = BestAreaFit /\ bin.canRotate
  /\ Len(bin.freeRects) >= 2
  /\ \E item \in BinItems :
       \E p, q \in FeasiblePairs(bin, item) :
         /\ p # q
         /\ WastedArea(bin, item, p) = WastedArea(bin, item, q)
         /\ ShortSide(bin, item, p) = ShortSide(bin, item, q)
         /\ BestAreaClaimed(bin, item).score1 = WastedArea(bin, item, p)
         /\ BestAreaClaimed(bin, item).score2 = ShortSide(bin, item, p)
  /\ \E item \in BinItems :
       /\ item[1] # item[2]
       /\ BestAreaClaimed(bin, item) # None
       /\ BestAreaClaimed(bin, item).width = item[2]

\* the lists a sub-range becomes by max(1, round(s * length)) swaps of two
\* distinct positions, for the strengths s of perturb
SwappedAsClaimed(subList) ==
  UNION {Swapped(subList, number) : number \in SwapCounts(Len(subList))}

\* C19 as claimed: with sort=False, removeAndRepack perturbs every
\* sub-range of at least 2 items it selects by at least one swap of two
\* distinct positions: the working order afterwards is the one before with
\* the sub-range replaced by a list that such swaps give.
C19_AtLeastOneSwap ==
  \A heur \in PackingHeuristic, pct \in Percentages,
     reverse \in BOOLEAN, first \in BOOLEAN :
    (/\ ~OutOfRange(pct)
     /\ rectList # NoList /\ rectList # << >> /\ numRects = Len(rectList)
     /\ Len(Removed(Self, pct, reverse)) >= 2)
      => \A r \in removeAndRepack(Self, heur, pct, reverse, FALSE, first) :
           r.sol.rectList \in
             {WriteBack(Self, pct, reverse, l).rectList :
                l \in SwappedAsClaimed(Removed(Self, pct, reverse))}

\* the placement c lies in the placement d
PlacementIn(c, d) ==
  /\ d[1] <= c[1] /\ d[2] <= c[2]
  /\ c[1] + c[3] <= d[1] + d[3] /\ c[2] + c[4] <= d[2] + d[4]

\* the maximal empty rectangles of the bin: the free placements that lie
\* in no other free placement
MaximalEmpty(b) ==
  LET free == FreePlacements(b)
  IN {c \in free : \A d \in free : PlacementIn(c, d) => d = c}

\* the extents of the free spaces of the bin
FreeExtents(b) ==
  {<< b.freeRects[i].x, b.freeRects[i].y,
      b.freeRects[i].width, b.freeRects[i].height >> :
     i \in 1..Len(b.freeRects)}

\* the sizes <<width, height>> that have a free placement in the bin
FreeSizes(b) == {<< c[3], c[4] >> : c \in FreePlacements(b)}

\* evaluatePacking returns a candidate for every item whose size is in the
\* set, with every heuristic
AllPlaced(sizes) ==
  \A item \in BinItems \cap sizes, heur \in PackingHeuristic :
    Returned(item, heur) # None

\* C20: in every state of a bin with rotation disabled, the free spaces
\* are exactly the maximal empty rectangles of the bin, and evaluatePacking
\* returns no candidate for an item only if the item has no integer
\* position inside the bin at which it overlaps no packed item.
C20_FreeSpacesComplete ==
  ~bin.canRotate =>
    /\ FreeExtents(bin) = MaximalEmpty(bin)
    /\ AllPlaced(FreeSizes(bin))

\* C20 witness: with rotation disabled, a third item was inserted, at
\* least two free spaces are left, and an item no larger than the free
\* area gets no candidate
C20_Witness ==
  /\ ~bin.canRotate
  /\ InsertReturnedTrue
  /\ Len(bin.packedRects) = 3
  /\ Len(bin.freeRects) >= 2
  /\ \E item \in BinItems :
       /\ item[1] * item[2] <= bin.binWidth * bin.binHeight - bin.occupiedArea
       /\ item[1] <= bin.binWidth /\ item[2] <= bin.binHeight
       /\ Returned(item, BestAreaFit) = None

\* two lists hold the same items: as many entries, and as many of each
\* width and height
SameItems(l1, l2) ==
  /\ Len(l1) = Len(l2)
  /\ \A k \in 1..Len(l1) :
       Count(l1, l1[k].width, l1[k].height) =
         Count(l2, l1[k].width, l1[k].height)

\* C21 as claimed: in every state in which pack has set a working list,
\* for every percentage in [0, 1] and both values of reverse and sort,
\* removeAndRepack leaves a working order that holds the same items as the
\* one before, no item lost or duplicated, and whose length equals
\* numRects.
C21_Permutes ==
  \A heur \in PackingHeuristic, pct \in Percentages,
     reverse \in BOOLEAN, sort \in BOOLEAN, first \in BOOLEAN :
    (~OutOfRange(pct) /\ rectList # NoList /\ rectList # << >>)
      => \A r \in removeAndRepack(Self, heur, pct, reverse, sort, first) :
           /\ SameItems(r.sol.rectList, rectList)
           /\ Len(r.sol.rectList) = r.sol.numRects

\* C22 as claimed: after every pack that returned, a second pack with a
\* list of another length included, numRects is the length of the working
\* list.
C22_CountCurrent ==
  (PackReturned /\ rectList # NoList) => numRects = Len(rectList)

====
